---- MODULE Spec2Model ----
(***************************************************************************)
(* A model of the intelligence-brief pipeline: fetch_all, _filter_by_time, *)
(* _deduplicate, the cross-brief filter, batch_analyze / analyze_item,     *)
(* generate_brief and its helpers, and run_aggregation's try/finally.      *)
(*                                                                         *)
(* Numbers: relevance scores are kept in hundredths (0.35 is 35); the      *)
(* pre-score of item_score is kept in 1/350 of a point, the least unit in  *)
(* which hours/3.5, score/25, comments/2 and stars/50 are all integers.    *)
(* Times are whole hours.                                                  *)
(***************************************************************************)
EXTENDS Integers, Sequences, FiniteSets, TLC

\* ------------------------------------------------------------------ bounds
NumSources == 3
MaxUrl == 3
MaxFetch == 1
MaxDedupLen == 5
MaxPool == 7
MaxCap == 6
MaxSectionLen == 3

\* ------------------------------------------------------- program constants
None == 0 - 1000
NoText == << "None" >>
NoCategory == "None"
min_per_source == 5
max_items_default == 50
MAX_PER_SOURCE == 2
max_research == 5
max_tools == 6
max_industry_news == 6
max_other == 8
relevance_threshold == 35
failed_score == 30
default_score == 50
lookback_hours == 24
Now == 100
Day0 == 20

\* ----------------------------------------------------------------- helpers
Min(a, b) == IF a < b THEN a ELSE b
Max(a, b) == IF a > b THEN a ELSE b

Range(s) == { s[i] : i \in 1..Len(s) }

\* s[:n] of Python, n >= 0
Take(s, n) == SubSeq(s, 1, Min(n, Len(s)))

\* s[a:b] of Python, 0 <= a
Slice(s, a, b) == SubSeq(s, a + 1, Min(b, Len(s)))

RECURSIVE Concat(_)
Concat(ss) == IF ss = << >> THEN << >> ELSE Head(ss) \o Concat(Tail(ss))

\* all sequences over S of length at most n
SeqUpTo(S, n) == UNION { [1..k -> S] : k \in 0..n }

\* ------------------------------------------------------------ ContentItem
SourceTypes ==
    { "substack", "arxiv", "hacker_news", "github", "reddit", "company_blog",
      "huggingface", "medium", "nyt", "wapo", "verge", "ars_technica",
      "techcrunch", "wired", "mit_tech_review", "rss", "podcast" }

NoEngagement == [present |-> FALSE, score |-> 0, comments |-> 0, stars |-> 0]

ContentItem(id, st, sn, url, pub, kw) ==
    [ id |-> id, source_type |-> st, source_name |-> sn, url |-> url,
      published_at |-> pub, utcoffset |-> None, kw |-> kw, engagement |-> NoEngagement,
      relevance_score |-> None, insight_summary |-> NoText,
      actionable_ideas |-> << >> ]

\* str(item.url): the URL field already holds the normalised string
UrlStr(item) == item.url

\* x.relevance_score or 0
ScoreOrZero(item) == IF item.relevance_score = None THEN 0 ELSE item.relevance_score

\* --------------------------------------------------- Aggregator._deduplicate
RECURSIVE dedup_loop(_, _, _)
dedup_loop(items, seen_urls, unique) ==
    IF items = << >> THEN unique
    ELSE LET item == Head(items)
             url_str == UrlStr(item)
         IN IF url_str \notin seen_urls
            THEN dedup_loop(Tail(items), seen_urls \cup {url_str}, Append(unique, item))
            ELSE dedup_loop(Tail(items), seen_urls, unique)

\* dedup keyed by the record's id
RECURSIVE dedup_by_id_loop(_, _, _)
dedup_by_id_loop(items, seen_ids, unique) ==
    IF items = << >> THEN unique
    ELSE IF Head(items).id \notin seen_ids
         THEN dedup_by_id_loop(Tail(items), seen_ids \cup { Head(items).id },
                               Append(unique, Head(items)))
         ELSE dedup_by_id_loop(Tail(items), seen_ids, unique)

deduplicate_by_id(items) == dedup_by_id_loop(items, {}, << >>)

\* dedup that forgets a URL when it drops a duplicate of it
RECURSIVE dedup_forget_loop(_, _, _)
dedup_forget_loop(items, seen_urls, unique) ==
    IF items = << >> THEN unique
    ELSE IF UrlStr(Head(items)) \notin seen_urls
         THEN dedup_forget_loop(Tail(items), seen_urls \cup { UrlStr(Head(items)) },
                                Append(unique, Head(items)))
         ELSE dedup_forget_loop(Tail(items), seen_urls \ { UrlStr(Head(items)) }, unique)

deduplicate_forgetful(items) == dedup_forget_loop(items, {}, << >>)

deduplicate(items) == dedup_loop(items, {}, << >>)

\* ------------------------------------------------ Aggregator._filter_by_time
\* published_at is the reading of the record's clock, utcoffset the zone it
\* carries (None: a naive datetime).  A naive reading is taken as UTC; an
\* aware one stands for the instant reading - offset.
as_utc(item) ==
    IF item.utcoffset = None THEN item.published_at
    ELSE item.published_at - item.utcoffset

\* the test with >= in the place of >
KeepByTime_inclusive(item, hours) ==
    \/ item.published_at = None
    \/ as_utc(item) >= Now - hours

KeepByTime(item, hours) ==
    \/ item.published_at = None
    \/ as_utc(item) > Now - hours

\* hours: None stands for the argument left out
filter_by_time(items, hours) ==
    LET h == IF hours = None THEN lookback_hours ELSE hours
    IN SelectSeq(items, LAMBDA item : KeepByTime(item, h))

\* ------------------------------------------- batch_analyze: item_score
mainstream_news == { "nyt", "wapo", "verge", "ars_technica", "techcrunch", "wired",
                     "mit_tech_review" }

source_authority(st) ==
    IF st \in mainstream_news THEN 55
    ELSE IF st = "company_blog" THEN 45
    ELSE IF st = "arxiv" THEN 35
    ELSE IF st = "substack" THEN 25
    ELSE IF st = "github" THEN 20
    ELSE IF st \in { "reddit", "hacker_news" } THEN 15
    ELSE 0

recency_score(item) ==
    IF item.published_at = None THEN 0
    ELSE Max(0, 17500 - 100 * (Now - as_utc(item)))

engagement_score(item) ==
    IF ~item.engagement.present THEN 0
    ELSE Min( Min(14 * item.engagement.score, 7000)
              + Min(175 * item.engagement.comments, 3500)
              + Min(7 * item.engagement.stars, 3500), 14000 )

item_score(item) ==
    350 * Min(item.kw * 10, 60) + 350 * source_authority(item.source_type)
    + recency_score(item) + engagement_score(item)

\* list.sort(key=..., reverse=True) and sorted(..., reverse=True): stable, so
\* records with equal keys keep their order.  pairs are <<key, record>>.
RECURSIVE InsertDesc(_, _)
InsertDesc(sorted, p) ==
    IF sorted = << >> THEN << p >>
    ELSE IF Head(sorted)[1] < p[1] THEN << p >> \o sorted
    ELSE << Head(sorted) >> \o InsertDesc(Tail(sorted), p)

RECURSIVE SortPairsDesc(_, _)
SortPairsDesc(pairs, acc) ==
    IF pairs = << >> THEN acc
    ELSE SortPairsDesc(Tail(pairs), InsertDesc(acc, Head(pairs)))

Unpair(pairs) == [ i \in 1..Len(pairs) |-> pairs[i][2] ]

sort_by_item_score(items) ==
    Unpair(SortPairsDesc([ i \in 1..Len(items) |-> << item_score(items[i]), items[i] >> ], << >>))

sort_by_relevance(items) ==
    Unpair(SortPairsDesc([ i \in 1..Len(items) |-> << ScoreOrZero(items[i]), items[i] >> ], << >>))

\* the keys of the by_source dict, in insertion order
RECURSIVE source_keys(_, _)
source_keys(items, keys) ==
    IF items = << >> THEN keys
    ELSE IF Head(items).source_type \in Range(keys)
         THEN source_keys(Tail(items), keys)
         ELSE source_keys(Tail(items), Append(keys, Head(items).source_type))

OfSource(items, k) == SelectSeq(items, LAMBDA item : item.source_type = k)

\* by_source[k] after the per-source sort
by_source_sorted(items, k) == sort_by_item_score(OfSource(items, k))

\* a first pass that takes the global top min_per_source, with no grouping
first_pass_global(items) == Take(sort_by_item_score(items), min_per_source)

\* first pass: min_per_source from each source, in dict order
first_pass(items) ==
    LET keys == source_keys(items, << >>)
    IN Concat([ j \in 1..Len(keys) |-> Take(by_source_sorted(items, keys[j]), min_per_source) ])

\* a second pass that does not leave out the records already selected
second_pass_no_exclude(items, selected_items, max_items) ==
    LET remaining_slots == max_items - Len(selected_items)
    IN IF remaining_slots > 0
       THEN selected_items \o Take(sort_by_item_score(items), remaining_slots)
       ELSE selected_items

\* a second pass that fills the remaining slots in pool order, unsorted
second_pass_pool_order(items, selected_items, max_items) ==
    LET selected_ids == { selected_items[j].id : j \in 1..Len(selected_items) }
        remaining_slots == max_items - Len(selected_items)
        all_remaining == SelectSeq(items, LAMBDA item : item.id \notin selected_ids)
    IN IF remaining_slots > 0
       THEN selected_items \o Take(all_remaining, remaining_slots)
       ELSE selected_items

\* second pass: the highest-scoring records whose id is not yet selected
second_pass(items, selected_items, max_items) ==
    LET selected_ids == { selected_items[j].id : j \in 1..Len(selected_items) }
        remaining_slots == max_items - Len(selected_items)
        all_remaining == sort_by_item_score(SelectSeq(items, LAMBDA item : item.id \notin selected_ids))
    IN IF remaining_slots > 0
       THEN selected_items \o Take(all_remaining, remaining_slots)
       ELSE selected_items

\* a final slice that stops one record short
truncate_selection_short(selected_items, max_items) == Take(selected_items, max_items - 1)

\* final list: selected_items[:max_items]
truncate_selection(selected_items, max_items) == Take(selected_items, max_items)

\* the list batch_analyze sends to analyze_item (sorted_items of the code)
select_for_analysis(items, max_items) ==
    truncate_selection(second_pass(items, first_pass(items), max_items), max_items)

\* ------------------------------------------- ContentAnalyzer.analyze_item
\* What the LLM call does is an input: the call raises (api_error), answers text
\* that is no JSON (bad_json), JSON that is no object (json_nondict), or a JSON
\* object (json_dict) whose keys may be missing.
Missing == 0 - 2000

failed_analysis(item, note) ==
    [ item EXCEPT !.relevance_score = failed_score,
                  !.insight_summary = << "Analysis failed", note >>,
                  !.actionable_ideas = << >> ]

parsed_analysis(item, result) ==
    LET category == IF result.category = NoCategory THEN "other" ELSE result.category
        ideas == << << "category", category >> >>
    IN [ item EXCEPT
           !.relevance_score = IF result.score = Missing THEN default_score ELSE result.score,
           !.insight_summary = result.insight,
           !.actionable_ideas = IF result.project_relevant /\ result.project_note # NoText
                                THEN Append(ideas, << "project", result.project_note >>)
                                ELSE ideas ]

\* the exception the body of analyze_item's try meets: the API call raises,
\* json.loads raises, or result.get fails on a value that is no dict
exception_of(outcome) ==
    IF outcome.kind = "api_error" THEN "APIError"
    ELSE IF outcome.kind = "bad_json" THEN "JSONDecodeError"
    ELSE IF outcome.kind = "json_nondict" THEN "AttributeError"
    ELSE "none"

\* except json.JSONDecodeError
inner_except_catches(exc) == exc = "JSONDecodeError"

\* an outer handler that names the API's error class only
outer_catches_api_error_only(exc) == exc = "APIError"

\* except Exception
outer_except_catches(exc) == exc # "none"

analyze_item_raises(outcome) ==
    LET exc == exception_of(outcome)
    IN exc # "none" /\ ~inner_except_catches(exc) /\ ~outer_except_catches(exc)

analyze_item(item, outcome) ==
    LET exc == exception_of(outcome)
    IN IF exc = "none" THEN parsed_analysis(item, outcome)
       ELSE IF inner_except_catches(exc) THEN failed_analysis(item, "invalid JSON response")
       ELSE failed_analysis(item, "API error")

LLMOutcome(kind, score, category, insight) ==
    [ kind |-> kind, score |-> score, category |-> category, insight |-> insight,
      project_relevant |-> FALSE, project_note |-> NoText ]

\* --------------------------- BriefGenerator._categorize_for_sections
industry_sources == mainstream_news \cup { "company_blog" }
research_sources == { "arxiv" }
tool_sources == { "github" }

SectionNames == { "industry_news", "research", "tools", "other" }

EmptySections == [ t \in SectionNames |-> << >> ]

\* the category tag: the first idea that starts with 'category:', else None
RECURSIVE category_of(_)
category_of(ideas) ==
    IF ideas = << >> THEN NoCategory
    ELSE IF Head(ideas)[1] = "category" THEN Head(ideas)[2]
    ELSE category_of(Tail(ideas))

target_section(item) ==
    LET source == item.source_type
        category == category_of(item.actionable_ideas)
    IN IF source \in research_sources \/ category = "research" THEN "research"
       ELSE IF source \in tool_sources \/ category = "tools" THEN "tools"
       ELSE IF source \in industry_sources \/ category = "industry_news" THEN "industry_news"
       ELSE "other"

section_max(target) ==
    IF target = "research" THEN max_research
    ELSE IF target = "tools" THEN max_tools
    ELSE IF target = "industry_news" THEN max_industry_news
    ELSE max_other

\* section_source_counts[target].get(source_name, 0): one is added with every
\* append to sections[target], so it is the number of records of that name there
source_count(section, source_name) ==
    Cardinality({ i \in 1..Len(section) : section[i].source_name = source_name })

\* the section limit tested with <= in the place of <
section_accepts_off_by_one(section, item, target) ==
    /\ Len(section) <= section_max(target)
    /\ source_count(section, item.source_name) < MAX_PER_SOURCE

\* the two checks before sections[target].append(item)
section_accepts(section, item, target) ==
    /\ Len(section) < section_max(target)
    /\ source_count(section, item.source_name) < MAX_PER_SOURCE

RECURSIVE categorize_loop(_, _, _)
categorize_loop(items, exclude_urls, sections) ==
    IF items = << >> THEN sections
    ELSE LET item == Head(items)
             target == target_section(item)
         IN IF UrlStr(item) \in exclude_urls
            THEN categorize_loop(Tail(items), exclude_urls, sections)
            ELSE IF section_accepts(sections[target], item, target)
                 THEN categorize_loop(Tail(items), exclude_urls,
                                      [ sections EXCEPT ![target] = Append(@, item) ])
                 ELSE categorize_loop(Tail(items), exclude_urls, sections)

categorize_for_sections(items, exclude_urls) ==
    categorize_loop(items, exclude_urls, EmptySections)

\* ------------------------------ BriefGenerator._select_diverse_items
RECURSIVE diverse_first_pass(_, _, _, _)
diverse_first_pass(keys, items, selected, target_count) ==
    IF keys = << >> THEN selected
    ELSE IF Len(selected) < target_count
         THEN diverse_first_pass(Tail(keys), items,
                                 Append(selected, Head(OfSource(items, Head(keys)))), target_count)
         ELSE diverse_first_pass(Tail(keys), items, selected, target_count)

RECURSIVE diverse_second_pass(_, _, _)
diverse_second_pass(items, selected, target_count) ==
    IF items = << >> \/ Len(selected) >= target_count THEN selected
    ELSE IF Head(items).id \notin { selected[j].id : j \in 1..Len(selected) }
         THEN diverse_second_pass(Tail(items), Append(selected, Head(items)), target_count)
         ELSE diverse_second_pass(Tail(items), selected, target_count)

\* the selection with no first pass: the top target_count records
select_top_items(items, target_count) == Take(items, target_count)

select_diverse_items(items, target_count) ==
    IF items = << >> THEN << >>
    ELSE diverse_second_pass(items,
            diverse_first_pass(source_keys(items, << >>), items, << >>, target_count),
            target_count)

\* ------------------------------------- BriefGenerator.generate_brief
target_count_whats_moving == 7
max_worth_a_click == 15

\* the threshold filter on the list as it came, unsorted
relevant_items_unsorted(items) ==
    SelectSeq(items, LAMBDA i : ScoreOrZero(i) >= relevance_threshold)

relevant_items_of(items) ==
    SelectSeq(sort_by_relevance(items), LAMBDA i : ScoreOrZero(i) >= relevance_threshold)

worth_a_click_of(relevant_items, whats_moving_items) ==
    LET used_ids == { whats_moving_items[j].id : j \in 1..Len(whats_moving_items) }
    IN Take(SelectSeq(relevant_items, LAMBDA i : i.id \notin used_ids), max_worth_a_click)

\* A text is a sequence of pieces: words, and markdown links [label](url).
Words(w) == << [ kind |-> "word", text |-> w, url |-> None ] >>
Link(label, url) == << [ kind |-> "link", text |-> label, url |-> url ] >>

\* what an LLM call for a text does: raises, or answers a text
LLMError == [ kind |-> "error", text |-> << >> ]
LLMText(text) == [ kind |-> "text", text |-> text ]

\* a handler of the text calls that catches nothing
text_except_catches_nothing(exc) == FALSE

\* except Exception around the text calls of generate_narrative_brief and
\* generate_quick_catchup
text_except_catches(exc) == exc # "none"

\* the text call lets its exception out
text_call_raises(llm) == llm.kind = "error" /\ ~text_except_catches("APIError")

\* ContentAnalyzer.generate_narrative_brief: the answer, or the fallback
generate_narrative_brief(llm) ==
    IF llm.kind = "error" THEN Words("Couldn't generate brief today.") ELSE llm.text

\* ContentAnalyzer.generate_quick_catchup: the answer, or the fallback
generate_quick_catchup(llm) ==
    IF llm.kind = "error" THEN Words("Couldn't generate summary today.") ELSE llm.text

\* URLs are numbers; those from ParenUrl on stand for URLs that contain a
\* closing parenthesis, as in https://en.wikipedia.org/wiki/Brief_(text)
ParenUrl == 100

\* group 2 of the pattern, [^)]+ : the URL as written up to its first ')'.
\* For a URL with a ')' that is a proper prefix of it (0 - url), no URL itself.
regex_url(url) == IF url >= ParenUrl THEN 0 - url ELSE url

\* the URLs of re.findall(r'\[([^\]]+)\]\(([^)]+)\)', narrative_brief): a
\* link is matched when its label is not empty
narrative_urls(narrative_brief) ==
    { regex_url(narrative_brief[i].url) :
        i \in { j \in 1..Len(narrative_brief) :
                   narrative_brief[j].kind = "link" /\ narrative_brief[j].text # "" } }

\* datetime.utcnow().strftime("%Y-%m-%d"): the digits of the date, most
\* significant first, zero-padded to a fixed width (two digits of a day number)
utc_date(day) == << day \div 10, day % 10 >>

\* the DailyBrief built from the analysed records, the two texts and the date
DailyBrief(items, narrative_brief, quick_catchup, date, sources_checked) ==
    LET relevant_items == relevant_items_of(items)
        narrative_url_set == narrative_urls(narrative_brief)
        sections == categorize_for_sections(relevant_items, narrative_url_set)
        whats_moving_items == select_diverse_items(relevant_items, target_count_whats_moving)
    IN [ date |-> date,
         quick_catchup |-> quick_catchup,
         claudes_take |-> narrative_brief,
         whats_moving |-> whats_moving_items,
         worth_a_click |-> worth_a_click_of(relevant_items, whats_moving_items),
         top_signal |-> sections["industry_news"],
         builder_corner |-> sections["tools"],
         paper_of_the_day |-> Take(sections["research"], 1),
         homelab_corner |-> IF Len(sections["research"]) > 1
                            THEN Slice(sections["research"], 1, 4) ELSE << >>,
         honorable_mentions |-> sections["other"],
         total_items_scanned |-> Len(items),
         sources_checked |-> sources_checked ]

\* a list made of the buckets store_brief persists: no 'other' section and no
\* whats_moving
all_shown_items_persisted(items, narrative_url_set) ==
    LET relevant_items == relevant_items_of(items)
        sections == categorize_for_sections(relevant_items, narrative_url_set)
        whats_moving_items == select_diverse_items(relevant_items, target_count_whats_moving)
    IN worth_a_click_of(relevant_items, whats_moving_items)
       \o sections["industry_news"] \o sections["tools"] \o sections["research"]

\* all_shown_items, the list handed to mark_items_shown
all_shown_items_of(items, narrative_url_set) ==
    LET relevant_items == relevant_items_of(items)
        sections == categorize_for_sections(relevant_items, narrative_url_set)
        whats_moving_items == select_diverse_items(relevant_items, target_count_whats_moving)
    IN worth_a_click_of(relevant_items, whats_moving_items)
       \o sections["industry_news"] \o sections["tools"] \o sections["research"]
       \o sections["other"] \o whats_moving_items

NoBrief == [ date |-> << >>, quick_catchup |-> << >>, claudes_take |-> << >>,
             whats_moving |-> << >>, worth_a_click |-> << >>, top_signal |-> << >>,
             builder_corner |-> << >>, paper_of_the_day |-> << >>, homelab_corner |-> << >>,
             honorable_mentions |-> << >>, total_items_scanned |-> 0,
             sources_checked |-> << >> ]

\* ------------------------------------------------------ brief_storage
retention_days_default == 14
recent_days_default == 14

\* a < b for two strings, character by character
StrLess(a, b) ==
    \/ \E k \in 1..Min(Len(a), Len(b)) :
          a[k] < b[k] /\ \A j \in 1..(k - 1) : a[j] = b[j]
    \/ Len(a) < Len(b) /\ \A j \in 1..Len(a) : a[j] = b[j]

\* store_brief's items_data: the stored projection of the records of
\* worth_a_click, paper_of_the_day, builder_corner, top_signal, homelab_corner
items_data(b) ==
    LET stored == b.worth_a_click \o b.paper_of_the_day \o b.builder_corner
                  \o b.top_signal \o b.homelab_corner
    IN [ i \in 1..Len(stored) |->
           [ id |-> stored[i].id, url |-> UrlStr(stored[i]),
             source_name |-> stored[i].source_name,
             source_type |-> stored[i].source_type,
             insight_summary |-> stored[i].insight_summary,
             relevance_score |-> stored[i].relevance_score ] ]

\* the row of table briefs written for a brief
brief_row(id, b, now) ==
    [ id |-> id, date |-> b.date, created_at |-> now,
      narrative |-> b.claudes_take, quick_catchup |-> b.quick_catchup,
      items |-> items_data(b), sources_checked |-> b.sources_checked,
      total_items_scanned |-> b.total_items_scanned ]

\* INSERT with no conflict clause on a table whose date is not UNIQUE
insert_plain(table, b, now) ==
    [ rows |-> table.rows \cup { brief_row(table.seq + 1, b, now) },
      seq |-> table.seq + 1 ]

\* INSERT OR REPLACE INTO briefs, date being UNIQUE: the row of the same date
\* is deleted, the new row gets the next id
insert_or_replace(table, b, now) ==
    [ rows |-> { r \in table.rows : r.date # b.date }
               \cup { brief_row(table.seq + 1, b, now) },
      seq |-> table.seq + 1 ]

\* a purge that also deletes the rows dated at the cutoff
cleanup_through_cutoff(table, now, retention_days) ==
    LET cutoff == utc_date(now - retention_days)
    IN [ table EXCEPT !.rows = { r \in @ : StrLess(cutoff, r.date) } ]

\* DELETE FROM briefs WHERE date < cutoff
cleanup_old_briefs(table, now, retention_days) ==
    LET cutoff == utc_date(now - retention_days)
    IN [ table EXCEPT !.rows = { r \in @ : ~StrLess(r.date, cutoff) } ]

\* store_brief when the INSERT commits: the table afterwards
store_brief(table, b, now) ==
    cleanup_old_briefs(insert_or_replace(table, b, now), now, retention_days_default)

\* SELECT * FROM briefs WHERE date = ?
get_brief_by_date(table, date) == { r \in table.rows : r.date = date }

\* SELECT * FROM briefs WHERE date >= cutoff
get_recent_briefs(table, now, days) ==
    { r \in table.rows : ~StrLess(r.date, utc_date(now - days)) }

\* the rows of the window in which the query occurs: a URL among the stored
\* items or the links of the narrative
search_briefs(table, query, now, days) ==
    { r \in get_recent_briefs(table, now, days) :
        \/ \E i \in 1..Len(r.items) : r.items[i].url = query
        \/ query \in narrative_urls(r.narrative) }

\* ================================================================ state
VARIABLES
    pc,               \* where run_aggregation is
    raised,           \* the stage whose exception is propagating, or "none"
    results,          \* fetch_all: what each adapter's fetch task gave
    close_called,     \* the adapters whose close() has been called
    history,          \* the URLs the brief-history store holds as recently shown
    all_items, sources_checked,
    recent_items, unique_items, recently_shown, fresh_items,
    sorted_items,     \* batch_analyze: the records selected for analysis
    analyzed,         \* batch_analyze: the records analysed so far
    outcomes,         \* what the LLM call did for each analysed record
    relevant_items,   \* generate_brief: the records at or above the threshold
    brief,            \* the DailyBrief of generate_brief
    all_shown_items,  \* the list generate_brief handed to mark_items_shown
    store_ok,         \* per access of the history store: did it answer
    delivery,         \* what the optional delivery channels did in this run
    today,            \* the UTC date, as a day number
    db,               \* the briefs table of brief_storage and its id sequence
    runs,             \* the runs of run_aggregation that have ended
    presented,        \* the URLs the briefs of ended runs held, each with
                      \* whether the store recorded it as shown
    calls,            \* batch_analyze's loop: the calls, returns and delays so far
    fn, arg, arg2, ret, ret2   \* a function called on its own: name, inputs, results

envVars == << today, db, runs, presented, calls >>
runVars == << pc, raised, results, close_called, history, all_items, sources_checked,
              recent_items, unique_items, recently_shown, fresh_items, sorted_items,
              analyzed, outcomes, relevant_items, brief, all_shown_items, store_ok,
              delivery, envVars >>
fnVars == << fn, arg, arg2, ret, ret2 >>
vars == << runVars, fnVars >>

Sources == 1..NumSources
URLS == 1..MaxUrl

\* ----------------------------------------------- the configured adapters
\* Aggregator._init_sources: Hacker News, arXiv, GitHub Trending always; the
\* others by configuration.
AdapterType(a) ==
    IF a = 1 THEN "hacker_news" ELSE IF a = 2 THEN "arxiv"
    ELSE IF a = 3 THEN "company_blog" ELSE IF a = 4 THEN "github" ELSE "reddit"

\* source.source_name of the adapter
AdapterName(a) ==
    IF a = 1 THEN "hacker_news" ELSE IF a = 2 THEN "arxiv"
    ELSE IF a = 3 THEN "rss" ELSE IF a = 4 THEN "github_trending" ELSE "reddit"

\* source_name of the adapter's records
AdapterItemName(a) ==
    IF a = 1 THEN "hacker_news" ELSE IF a = 2 THEN "arxiv"
    ELSE IF a = 3 THEN "openai.com" ELSE IF a = 4 THEN "github_trending" ELSE "r/LocalLLaMA"

\* the records adapter a can return: any URL published an hour ago, and one
\* published exactly lookback_hours ago
FetchedItems(a) ==
    { ContentItem(a * 10 + u, AdapterType(a), AdapterItemName(a), u, Now - 1, 0) : u \in URLS }
    \cup { ContentItem(a * 10 + 1, AdapterType(a), AdapterItemName(a), 1, Now - lookback_hours, 0) }

Pending == [ state |-> "pending", items |-> << >> ]
FetchError == [ state |-> "error", items |-> << >> ]
FetchOk(items) == [ state |-> "ok", items |-> items ]

\* no delivery attempted
NoDelivery == [ email |-> "off", imessage |-> "off" ]

\* the table briefs with no row; seq is the last id AUTOINCREMENT gave
EmptyDb == [ rows |-> {}, seq |-> 0 ]

FnIdle == fn = "none" /\ arg = << >> /\ arg2 = << >> /\ ret = << >> /\ ret2 = << >>

RunIdle(p) ==
    /\ pc = p /\ raised = "none"
    /\ results = [ a \in Sources |-> Pending ]
    /\ close_called = {}
    /\ all_items = << >> /\ sources_checked = << >>
    /\ recent_items = << >> /\ unique_items = << >>
    /\ recently_shown = {} /\ fresh_items = << >>
    /\ sorted_items = << >> /\ analyzed = << >> /\ outcomes = << >>
    /\ relevant_items = << >> /\ brief = NoBrief /\ all_shown_items = << >>
    /\ store_ok = [ read |-> TRUE, mark |-> TRUE ]
    /\ delivery = NoDelivery
    /\ today = Day0 /\ db = EmptyDb /\ runs = 0 /\ presented = {} /\ calls = << >>

\* After Aggregator() and BriefGenerator(): the adapters exist, nothing is
\* fetched; the store holds the URLs of earlier briefs.
Init ==
    /\ RunIdle("discover")
    /\ history \in { 1..k : k \in 0..MaxUrl }
    /\ FnIdle

\* --------------------------------------------------- run_aggregation
\* Steps 1-2: get_dynamic_topics swallows its errors; discover_sources_for_topics
\* returns or raises.
DiscoverSources ==
    /\ pc = "discover"
    /\ \/ pc' = "fetching" /\ raised' = raised
       \/ pc' = "finally" /\ raised' = "discover"
    /\ UNCHANGED << results, close_called, history, all_items, sources_checked,
                    recent_items, unique_items, recently_shown, fresh_items, sorted_items,
                    analyzed, outcomes, relevant_items, brief, all_shown_items, store_ok, fnVars, delivery, envVars >>

\* fetch_all: one adapter's task ends, with a list or with an exception
SourceFetch(a) ==
    /\ pc = "fetching"
    /\ results[a].state = "pending"
    /\ \E r \in { FetchError } \cup { FetchOk(items) : items \in SeqUpTo(FetchedItems(a), MaxFetch) } :
          results' = [ results EXCEPT ![a] = r ]
    /\ UNCHANGED << pc, raised, close_called, history, all_items, sources_checked,
                    recent_items, unique_items, recently_shown, fresh_items, sorted_items,
                    analyzed, outcomes, relevant_items, brief, all_shown_items, store_ok, fnVars, delivery, envVars >>

\* asyncio.gather(*tasks, return_exceptions=...): with the flag an exception is a
\* result; without it the first exception leaves gather
gather_raises(res, return_exceptions) ==
    ~return_exceptions /\ \E a \in Sources : res[a].state = "error"

fetch_all_raises(res) == gather_raises(res, TRUE)

\* a wait that ends when the first task has completed
gather_done_first(res) == \E a \in Sources : res[a].state # "pending"

\* results = await asyncio.gather(*tasks, ...): gather returns when every task
\* has completed or failed
gather_done(res) == \A a \in Sources : res[a].state # "pending"

\* the merge with break in the place of continue
RECURSIVE merge_results_break(_, _)
merge_results_break(res, a) ==
    IF a > NumSources THEN << >>
    ELSE IF res[a].state = "error" THEN << >>
    ELSE res[a].items \o merge_results_break(res, a + 1)

\* fetch_all after gather: for source, result in zip(self.sources, results)
RECURSIVE merge_results(_, _)
merge_results(res, a) ==
    IF a > NumSources THEN << >>
    ELSE IF res[a].state = "error" THEN merge_results(res, a + 1)
    ELSE res[a].items \o merge_results(res, a + 1)

source_names == [ a \in Sources |-> AdapterName(a) ]

\* get_recently_shown_urls(days=14): the stored URLs; the empty set when the
\* store does not answer
get_recently_shown_urls(stored, available) == IF available THEN stored ELSE {}

\* mark_items_shown(items): the stored URLs afterwards; unchanged when the store
\* does not answer
mark_items_shown(stored, items, available) ==
    IF available THEN stored \cup { UrlStr(items[i]) : i \in 1..Len(items) } ELSE stored

\* the filter with the record's id looked up in the URL set
remove_recently_shown_by_id(items, shown) ==
    SelectSeq(items, LAMBDA i : i.id \notin shown)

\* the filter with the membership test inverted
remove_recently_shown_inverted(items, shown) ==
    SelectSeq(items, LAMBDA i : UrlStr(i) \in shown)

\* no filter at all
remove_recently_shown_none(items, shown) == items

\* fresh_items = [i for i in unique_items if str(i.url) not in recently_shown]
remove_recently_shown(items, shown) ==
    SelectSeq(items, LAMBDA i : UrlStr(i) \notin shown)

\* aggregate_and_analyze from the return of gather to the first analyze_item
Aggregate ==
    /\ pc = "fetching"
    /\ gather_done(results)
    /\ IF fetch_all_raises(results)
       THEN /\ pc' = "finally" /\ raised' = "fetch"
            /\ UNCHANGED << all_items, sources_checked, recent_items, unique_items,
                            recently_shown, fresh_items, sorted_items, store_ok >>
       ELSE /\ \E available \in BOOLEAN :
                 LET merged == merge_results(results, 1)
                     recent == filter_by_time(merged, None)
                     unique == deduplicate(recent)
                     shown == get_recently_shown_urls(history, available)
                     fresh == remove_recently_shown(unique, shown)
                 IN /\ all_items' = merged
                    /\ sources_checked' = source_names
                    /\ recent_items' = recent
                    /\ unique_items' = unique
                    /\ recently_shown' = shown
                    /\ fresh_items' = fresh
                    /\ sorted_items' = select_for_analysis(fresh, max_items_default)
                    /\ store_ok' = [ store_ok EXCEPT !.read = available ]
            /\ pc' = "analyzing" /\ raised' = raised
    /\ UNCHANGED << results, close_called, history, analyzed, outcomes,
                    relevant_items, brief, all_shown_items, fnVars, delivery, envVars >>

\* the LLM's answers tried in a run
RunOutcomes ==
    { LLMOutcome("api_error", Missing, NoCategory, NoText),
      LLMOutcome("bad_json", Missing, NoCategory, NoText),
      LLMOutcome("json_nondict", Missing, NoCategory, NoText),
      LLMOutcome("json_dict", Missing, NoCategory, NoText),
      LLMOutcome("json_dict", 90, "research", << "insight" >>),
      LLMOutcome("json_dict", 20, "tools", << "insight" >>) }

\* batch_analyze: one turn of the loop over sorted_items
AnalyzeNext ==
    /\ pc = "analyzing"
    /\ Len(analyzed) < Len(sorted_items)
    /\ \E o \in RunOutcomes :
         IF analyze_item_raises(o)
         THEN /\ pc' = "finally" /\ raised' = "analyze"
              /\ UNCHANGED << analyzed, outcomes >>
         ELSE /\ analyzed' = Append(analyzed, analyze_item(sorted_items[Len(analyzed) + 1], o))
              /\ outcomes' = Append(outcomes, o.kind)
              /\ UNCHANGED << pc, raised >>
    /\ UNCHANGED << results, close_called, history, all_items, sources_checked,
                    recent_items, unique_items, recently_shown, fresh_items, sorted_items,
                    relevant_items, brief, all_shown_items, store_ok, fnVars, delivery, envVars >>

\* the two text calls of generate_brief, narrative and teaser: both fail, or
\* both answer, the narrative linking the URL least often in the history
TextAnswers ==
    { << LLMError, LLMError >>,
      << LLMText(Words("lead") \o Link("source", MaxUrl)), LLMText(Words("teaser")) >> }

\* generate_brief on the records batch_analyze returned
GenerateBrief ==
    /\ pc = "analyzing"
    /\ Len(analyzed) = Len(sorted_items)
    /\ \E answers \in TextAnswers, available \in BOOLEAN :
         LET narrative_brief == generate_narrative_brief(answers[1])
             quick_catchup == generate_quick_catchup(answers[2])
             narrative_url_set == narrative_urls(narrative_brief)
         IN IF text_call_raises(answers[1]) \/ text_call_raises(answers[2])
            THEN /\ pc' = "finally" /\ raised' = "generate"
                 /\ UNCHANGED << relevant_items, brief, all_shown_items, history, store_ok >>
            ELSE /\ relevant_items' = relevant_items_of(analyzed)
                 /\ brief' = DailyBrief(analyzed, narrative_brief, quick_catchup,
                                        utc_date(today), sources_checked)
                 /\ all_shown_items' = all_shown_items_of(analyzed, narrative_url_set)
                 /\ history' = mark_items_shown(history,
                                                all_shown_items_of(analyzed, narrative_url_set),
                                                available)
                 /\ store_ok' = [ store_ok EXCEPT !.mark = available ]
                 /\ pc' = "store" /\ raised' = raised
    /\ UNCHANGED << results, close_called, all_items, sources_checked,
                    recent_items, unique_items, recently_shown, fresh_items, sorted_items,
                    analyzed, outcomes, fnVars, delivery, envVars >>

\* store_brief: the row is written and old rows are purged, or the database
\* raises and nothing is committed
StoreBrief ==
    /\ pc = "store"
    /\ \/ pc' = "deliver" /\ raised' = raised /\ db' = store_brief(db, brief, today)
       \/ pc' = "finally" /\ raised' = "store" /\ db' = db
    /\ UNCHANGED << results, close_called, history, all_items, sources_checked,
                    recent_items, unique_items, recently_shown, fresh_items, sorted_items,
                    analyzed, outcomes, relevant_items, brief, all_shown_items, store_ok,
                    fnVars, delivery, today, runs, presented, calls >>

\* the memory log, the formatting and the optional deliveries: return, or raise
Deliver ==
    /\ pc = "deliver"
    /\ pc' = "finally"
    /\ \/ raised' = raised
       \/ raised' = "deliver"
    /\ UNCHANGED << results, close_called, history, all_items, sources_checked,
                    recent_items, unique_items, recently_shown, fresh_items, sorted_items,
                    analyzed, outcomes, relevant_items, brief, all_shown_items, store_ok, fnVars, delivery, envVars >>

\* close called only on the adapters whose fetch returned a list
sources_closed_fetched == { a \in Sources : results[a].state = "ok" }

\* Aggregator.close: for source in self.sources: await source.close()
sources_closed == Sources

\* finally: await aggregator.close(); then run_aggregation returns the brief, or
\* the pending exception leaves it
Finally ==
    /\ pc = "finally"
    /\ close_called' = close_called \cup sources_closed
    /\ pc' = IF raised = "none" THEN "done" ELSE "failed"
    /\ UNCHANGED << raised, results, history, all_items, sources_checked,
                    recent_items, unique_items, recently_shown, fresh_items, sorted_items,
                    analyzed, outcomes, relevant_items, brief, all_shown_items, store_ok,
                    fnVars, delivery, envVars >>

Next ==
    \/ DiscoverSources
    \/ \E a \in Sources : SourceFetch(a)
    \/ Aggregate
    \/ AnalyzeNext
    \/ GenerateBrief
    \/ StoreBrief
    \/ Deliver
    \/ Finally

Spec == Init /\ [][Next]_vars

\* ============================================== properties of a run
\* aggregate_and_analyze has passed fetch_all
Aggregated == sources_checked # << >>

BriefItems(b) ==
    Range(b.whats_moving) \cup Range(b.worth_a_click) \cup Range(b.top_signal)
    \cup Range(b.builder_corner) \cup Range(b.paper_of_the_day)
    \cup Range(b.homelab_corner) \cup Range(b.honorable_mentions)

FailedKinds == { "api_error", "bad_json", "json_nondict" }

\* C1 - cross-run suppression: no record whose URL is in the set the history
\* store returned is selected for analysis, analysed or placed in the brief,
\* and every deduplicated record whose URL is not in the set is kept by the
\* cross-brief filter.
C1_CrossRunSuppression ==
    /\ \A i \in 1..Len(fresh_items) : fresh_items[i].url \notin recently_shown
    /\ \A i \in 1..Len(sorted_items) : sorted_items[i].url \notin recently_shown
    /\ \A i \in 1..Len(analyzed) : analyzed[i].url \notin recently_shown
    /\ \A item \in BriefItems(brief) : item.url \notin recently_shown
    /\ \A j \in 1..Len(unique_items) :
          unique_items[j].url \notin recently_shown
          => \E k \in 1..Len(fresh_items) : fresh_items[k] = unique_items[j]

\* three distinct URLs fetched, one of them recently shown, the other two analysed
C1_Witness ==
    /\ pc = "store"
    /\ Len(unique_items) = 3
    /\ Cardinality(recently_shown) = 1
    /\ \E j \in 1..3 : unique_items[j].url \in recently_shown
    /\ Len(analyzed) = 2

\* C4 - partial source failure: fetch_all does not raise, returns the lists of
\* the adapters that succeeded, concatenated in adapter order, and
\* sources_checked names every configured adapter, failed ones included.
C4_PartialFailureIsolated ==
    /\ raised # "fetch"
    /\ (pc \notin { "discover", "fetching" } /\ raised # "discover") => Aggregated
    /\ Aggregated =>
         /\ all_items = Concat([ a \in Sources |->
                                  IF results[a].state = "ok" THEN results[a].items ELSE << >> ])
         /\ Len(sources_checked) = NumSources
         /\ \A a \in Sources : sources_checked[a] = AdapterName(a)

\* one adapter failed, two others returned a record each
C4_Witness ==
    /\ pc = "analyzing"
    /\ \E a \in Sources : results[a].state = "error"
    /\ Cardinality({ a \in Sources : results[a].state = "ok" /\ results[a].items # << >> }) >= 2
    /\ Len(all_items) >= 2
    /\ Len(sources_checked) = NumSources

C6_Degraded ==
    /\ raised \notin { "history", "mark" }
    /\ (Aggregated /\ ~store_ok.read) =>
         /\ recently_shown = {}
         /\ fresh_items = unique_items
         /\ \A i, j \in 1..Len(unique_items) :
               unique_items[i].url = unique_items[j].url => i = j
         /\ \A i \in 1..Len(recent_items) :
               \E j \in 1..Len(unique_items) : unique_items[j].url = recent_items[i].url
    /\ (Aggregated /\ (~store_ok.read \/ ~store_ok.mark) /\ pc \in { "store", "deliver", "done" })
         => brief.sources_checked = source_names

C6_MarkNoOp ==
    (pc = "analyzing" /\ pc' = "store" /\ ~store_ok'.mark) => history' = history

C7_FailedAnalysisKept ==
    pc = "store" =>
        \A i \in 1..Len(analyzed) :
            outcomes[i] \in FailedKinds
            => \E k \in 1..Len(relevant_items) : relevant_items[k].id = analyzed[i].id

\* the identity and content fields of a record, the analysis fields left out
Unanalyzed(item) ==
    [ item EXCEPT !.relevance_score = None, !.insight_summary = NoText,
                  !.actionable_ideas = << >> ]

\* C8 - the analysis boundary never raises: no exception of analyze_item leaves
\* batch_analyze; the i-th analysed record is the i-th selected record; after a
\* failed call it carries score 0.3, a summary starting 'Analysis failed' and no
\* tags; batch_analyze returns one record per selected record, in order.
C8_AnalysisBoundary ==
    /\ raised # "analyze"
    /\ Len(analyzed) <= Len(sorted_items)
    /\ Len(outcomes) = Len(analyzed)
    /\ \A i \in 1..Len(analyzed) :
          /\ Unanalyzed(analyzed[i]) = sorted_items[i]
          /\ outcomes[i] \in FailedKinds =>
                /\ analyzed[i].relevance_score = 30
                /\ analyzed[i].insight_summary[1] = "Analysis failed"
                /\ analyzed[i].actionable_ideas = << >>
    /\ pc \in { "store", "deliver", "done" } => Len(analyzed) = Len(sorted_items)

\* three records analysed: one call raised, one answered no JSON, one answered
\* JSON that is no object
C8_Witness ==
    /\ pc = "store"
    /\ Len(analyzed) = 3
    /\ { outcomes[i] : i \in 1..3 } = FailedKinds

\* ===================================== _deduplicate called on its own
DedupItems == { ContentItem(id, "rss", "feed", u, None, 0) : id \in 1..2, u \in URLS }

InitDedup ==
    /\ RunIdle("idle") /\ history = {}
    /\ fn = "deduplicate"
    /\ arg = << >> /\ arg2 = << >> /\ ret = << >> /\ ret2 = << >>

\* the caller's list grows by one record
DedupInput ==
    /\ fn = "deduplicate"
    /\ Len(arg) < MaxDedupLen
    /\ \E item \in DedupItems : arg' = Append(arg, item)
    /\ UNCHANGED << runVars, fn, arg2, ret, ret2 >>

DedupCall ==
    /\ fn = "deduplicate"
    /\ ret' = deduplicate(arg)
    /\ fn' = "deduplicated"
    /\ UNCHANGED << runVars, arg, arg2, ret2 >>

\* _deduplicate on its own output
DedupAgain ==
    /\ fn = "deduplicated"
    /\ ret2' = deduplicate(ret)
    /\ fn' = "deduplicated_twice"
    /\ UNCHANGED << runVars, arg, arg2, ret >>

NextDedup == DedupInput \/ DedupCall \/ DedupAgain

SpecDedup == InitDedup /\ [][NextDedup]_vars

\* positions of the first record of each URL
FirstOccurrences(items) ==
    { i \in 1..Len(items) : \A j \in 1..(i - 1) : items[j].url # items[i].url }

\* C9 - same-run dedup keeps first occurrences: the output is the input's
\* subsequence of the first record of each URL, in encounter order, so its
\* URLs are pairwise distinct and are the URLs of the input.
C9_DedupFirstOccurrences ==
    fn \in { "deduplicated", "deduplicated_twice" } =>
        LET first == FirstOccurrences(arg)
        IN /\ Len(ret) = Cardinality(first)
           /\ \A i \in first : ret[Cardinality({ j \in first : j <= i })] = arg[i]
           /\ \A i, j \in 1..Len(ret) : ret[i].url = ret[j].url => i = j
           /\ { ret[i].url : i \in 1..Len(ret) } = { arg[i].url : i \in 1..Len(arg) }

\* a list of four or more records over two URLs, with two records of one URL and
\* different ids
C9_Witness ==
    /\ fn = "deduplicated"
    /\ Len(arg) >= 4 /\ Len(ret) = 2
    /\ \E i, j \in 1..Len(arg) : i < j /\ arg[i].url = arg[j].url /\ arg[i].id # arg[j].id

\* C10 - dedup idempotence: _deduplicate of _deduplicate's output is that output.
C10_DedupIdempotent ==
    fn = "deduplicated_twice" => ret2 = ret

\* the first pass removed duplicates and left two records or more
C10_Witness ==
    /\ fn = "deduplicated_twice"
    /\ Len(ret) < Len(arg) /\ Len(ret) >= 2
    /\ ret2 = ret

\* ============================= batch_analyze's selection on its own
RankTypes == { "reddit", "nyt" }
RankKeywords == { 0, 5 }

RankItem(i, st, kw) == ContentItem(i, st, st, i, None, kw)

InitRank ==
    /\ RunIdle("idle") /\ history = {}
    /\ fn = "batch_analyze"
    /\ arg = << >> /\ arg2 = 0 /\ ret = << >> /\ ret2 = << >>

\* a second record that carries the id of the first, under a URL of its own
RankDup(first) == [ RankItem(2, first.source_type, 0) EXCEPT !.id = first.id ]

\* the pool grows by one record, its URL new; its id is new too, but for a
\* second record that may repeat the first one's id
RankInput ==
    /\ fn = "batch_analyze"
    /\ Len(arg) < MaxPool
    /\ \/ \E st \in RankTypes, kw \in RankKeywords :
             arg' = Append(arg, RankItem(Len(arg) + 1, st, kw))
       \/ Len(arg) = 1 /\ arg' = Append(arg, RankDup(arg[1]))
    /\ UNCHANGED << runVars, fn, arg2, ret, ret2 >>

\* batch_analyze(items, max_items) up to the list sent to analysis
SelectCall ==
    /\ fn = "batch_analyze"
    /\ \E max_items \in (0..MaxCap) \cup { max_items_default } :
          /\ arg2' = max_items
          /\ ret' = select_for_analysis(arg, max_items)
    /\ fn' = "selected"
    /\ UNCHANGED << runVars, arg, ret2 >>

NextRank == RankInput \/ SelectCall

SpecRank == InitRank /\ [][NextRank]_vars

CountOfType(items, st) == Cardinality({ i \in 1..Len(items) : items[i].source_type = st })

RECURSIVE SumOver(_, _)
SumOver(S, f) ==
    IF S = {} THEN 0 ELSE LET x == CHOOSE y \in S : TRUE IN f[x] + SumOver(S \ { x }, f)

\* what the first pass takes: min(n, 5) records of every source type
FloorTotal(items) ==
    SumOver(SourceTypes, [ st \in SourceTypes |-> Min(CountOfType(items, st), 5) ])

FloorHolds ==
    \A st \in SourceTypes : CountOfType(ret, st) >= Min(CountOfType(arg, st), 5)

MaxNames == 5
MaxLong == 10

SectionItem(id, st, cat, sn, url) ==
    [ ContentItem(id, st, sn, url, None, 0) EXCEPT
        !.relevance_score = default_score,
        !.actionable_ideas = IF cat = NoCategory THEN << >> ELSE << << "category", cat >> >> ]

\* source type and category tag of the short lists: each type alone, and with
\* a tag that moves it to another section
TypeTags ==
    ({ "reddit" } \X { NoCategory, "research", "tools", "industry_news" })
    \cup ({ "arxiv", "github", "nyt" } \X { NoCategory })
    \cup { << "nyt", "tools" >> }

\* long lists of one section: n records whose source names cycle through m names
LongLists ==
    { [ i \in 1..n |-> SectionItem(i, st, NoCategory, << "name", i % m >>, 10 + i) ] :
        st \in { "arxiv", "github", "nyt", "reddit" }, m \in 1..MaxNames,
        n \in (MaxSectionLen + 1)..MaxLong }

\* the narrative links URL 1
ExcludedUrls == { 1 }

InitSections ==
    /\ RunIdle("idle") /\ history = {}
    /\ fn = "categorize_for_sections"
    /\ arg \in { << >> } \cup LongLists
    /\ arg2 = ExcludedUrls
    /\ ret = << >> /\ ret2 = << >>

\* a short list grows by one record: any type and tag, one of two source
\* names, a URL the narrative links or one it does not
SectionInput ==
    /\ fn = "categorize_for_sections"
    /\ Len(arg) < MaxSectionLen
    /\ \E tt \in TypeTags, sn \in { << "name", 0 >>, << "name", 1 >> }, url \in 1..2 :
          arg' = Append(arg, SectionItem(Len(arg) + 1, tt[1], tt[2], sn, url))
    /\ UNCHANGED << runVars, fn, arg2, ret, ret2 >>

CategorizeCall ==
    /\ fn = "categorize_for_sections"
    /\ ret' = categorize_for_sections(arg, arg2)
    /\ fn' = "categorized"
    /\ UNCHANGED << runVars, arg, arg2, ret2 >>

NextSections == SectionInput \/ CategorizeCall

SpecSections == InitSections /\ [][NextSections]_vars

NamesIn(section) == { section[i].source_name : i \in 1..Len(section) }

\* C3 - section cap enforcement: research holds at most 5 records, tools 6,
\* industry_news 6, other 8, and no source_name has more than 2 records in
\* any one section.
C3_SectionCaps ==
    fn = "categorized" =>
        /\ Len(ret["research"]) <= 5
        /\ Len(ret["tools"]) <= 6
        /\ Len(ret["industry_news"]) <= 6
        /\ Len(ret["other"]) <= 8
        /\ \A t \in SectionNames : \A sn \in NamesIn(ret[t]) :
              Cardinality({ i \in 1..Len(ret[t]) : ret[t][i].source_name = sn }) <= 2

\* more than eight records for the section 'other' from five source names: the
\* section is full, three names have two records each
C3_Witness ==
    /\ fn = "categorized"
    /\ Len(arg) > 8
    /\ Len(ret["other"]) = 8
    /\ Cardinality({ sn \in NamesIn(ret["other"]) :
          Cardinality({ i \in 1..8 : ret["other"][i].source_name = sn }) = 2 }) = 3

\* ============================== _filter_by_time called on its own
MaxTimeLen == 4

\* clock readings around the cutoff now - lookback_hours, and the zones
TimeReadings == { Now - lookback_hours - 1, Now - lookback_hours, Now - lookback_hours + 1 }
TimeOffsets == { None, 0, 1 }

TimeItem(id, pub, off) ==
    [ ContentItem(id, "rss", "feed", id, pub, 0) EXCEPT !.utcoffset = off ]

InitTime ==
    /\ RunIdle("idle") /\ history = {}
    /\ fn = "filter_by_time"
    /\ arg = << >> /\ arg2 = None /\ ret = << >> /\ ret2 = << >>

\* the caller's list grows by one record, with or without published_at
TimeInput ==
    /\ fn = "filter_by_time"
    /\ Len(arg) < MaxTimeLen
    /\ \/ arg' = Append(arg, TimeItem(Len(arg) + 1, None, None))
       \/ \E pub \in TimeReadings, off \in TimeOffsets :
             arg' = Append(arg, TimeItem(Len(arg) + 1, pub, off))
    /\ UNCHANGED << runVars, fn, arg2, ret, ret2 >>

\* _filter_by_time(items) and _filter_by_time(items, hours)
FilterCall ==
    /\ fn = "filter_by_time"
    /\ \E hours \in { None, lookback_hours - 1 } :
          /\ arg2' = hours
          /\ ret' = filter_by_time(arg, hours)
    /\ fn' = "filtered"
    /\ UNCHANGED << runVars, arg, ret2 >>

NextTime == TimeInput \/ FilterCall

SpecTime == InitTime /\ [][NextTime]_vars

\* the cutoff of the call made
CutoffOf(hours) == Now - (IF hours = None THEN lookback_hours ELSE hours)

\* the instant a record was published at, None when it has no published_at
InstantOf(item) ==
    IF item.published_at = None THEN None
    ELSE IF item.utcoffset = None THEN item.published_at
    ELSE item.published_at - item.utcoffset

\* C11 - time filter boundary: the output is the subsequence of the input, in
\* the input's order, of exactly the records that have no published_at or whose
\* published_at, taken as UTC when it carries no zone, is strictly after
\* now - window; so a record at the cutoff is left out and one just after is kept.
C11_TimeFilterBoundary ==
    fn = "filtered" =>
        LET kept == { i \in 1..Len(arg) :
                        InstantOf(arg[i]) = None \/ InstantOf(arg[i]) > CutoffOf(arg2) }
        IN /\ Len(ret) = Cardinality(kept)
           /\ \A i \in kept : ret[Cardinality({ j \in kept : j <= i })] = arg[i]
           /\ \A i \in 1..Len(arg) :
                 InstantOf(arg[i]) = CutoffOf(arg2) => \A k \in 1..Len(ret) : ret[k] # arg[i]

\* four records: one at the cutoff by its zone though its reading is after it,
\* one an hour after the cutoff, one without published_at, one before the cutoff
C11_Witness ==
    /\ fn = "filtered"
    /\ Len(arg) = 4 /\ Len(ret) = 2
    /\ \E i \in 1..4 : /\ InstantOf(arg[i]) = CutoffOf(arg2)
                        /\ arg[i].published_at > CutoffOf(arg2)
    /\ \E i \in 1..4 : InstantOf(arg[i]) = CutoffOf(arg2) + 1 /\ arg[i] \in Range(ret)
    /\ \E i \in 1..4 : arg[i].published_at = None /\ arg[i] \in Range(ret)
    /\ \E i \in 1..4 : InstantOf(arg[i]) # None /\ InstantOf(arg[i]) < CutoffOf(arg2)

\* ------------------------------------------ the size of the selection
DistinctIds(items) == \A i, j \in 1..Len(items) : items[i].id = items[j].id => i = j

MaxStores == 3
MaxDays == 2

\* the variables the store's functions neither read nor write
storeFrame == << pc, raised, results, close_called, history, all_items, sources_checked,
                recent_items, unique_items, recently_shown, fresh_items, sorted_items,
                analyzed, outcomes, relevant_items, brief, all_shown_items, store_ok,
                delivery, runs, presented, calls >>

\* the briefs handed to store_brief: dated today, yesterday, at the purge
\* cutoff or a day before it; total_items_scanned tells two briefs of a date apart
StoredBriefs(now) ==
    { [ NoBrief EXCEPT !.date = utc_date(now - k), !.total_items_scanned = n ] :
        k \in { 0, 1, retention_days_default, retention_days_default + 1 }, n \in 1..2 }

InitStore ==
    /\ RunIdle("idle") /\ history = {}
    /\ fn = "idle"
    /\ arg = << >> /\ arg2 = << >> /\ ret = << >> /\ ret2 = << >>

\* store_brief(brief): arg is the brief, arg2 the table before the call, ret the
\* id returned; or the INSERT raises and nothing is committed
StoreCall ==
    /\ db.seq < MaxStores
    /\ \E b \in StoredBriefs(today) :
          /\ arg' = b
          /\ \/ db' = store_brief(db, b, today) /\ ret' = db.seq + 1 /\ fn' = "stored"
             \/ db' = db /\ ret' = None /\ fn' = "store_raised"
    /\ arg2' = db
    /\ UNCHANGED << storeFrame, today, ret2 >>

\* get_brief_by_date, get_recent_briefs, search_briefs: arg is the call, arg2
\* the table before it, ret the rows returned
ReadCall ==
    /\ \E k \in { 0, 1, retention_days_default } :
          \/ /\ arg' = << "get_brief_by_date", utc_date(today - k) >>
             /\ ret' = get_brief_by_date(db, utc_date(today - k))
          \/ /\ arg' = << "get_recent_briefs", k >>
             /\ ret' = get_recent_briefs(db, today, k)
          \/ /\ arg' = << "search_briefs", k >>
             /\ ret' = search_briefs(db, k, today, recent_days_default)
    /\ fn' = "read"
    /\ arg2' = db
    /\ UNCHANGED << storeFrame, today, db, ret2 >>

\* midnight UTC
DayPasses ==
    /\ today < Day0 + MaxDays
    /\ today' = today + 1
    /\ fn' = "idle"
    /\ UNCHANGED << storeFrame, db, arg, arg2, ret, ret2 >>

NextStore == StoreCall \/ ReadCall \/ DayPasses

SpecStore == InitStore /\ [][NextStore]_vars

\* the day a date string names
DayOf(date) == 10 * date[1] + date[2]

\* C15 - upsert by date: the table never holds two rows of one date; when
\* store_brief has returned, a row of the brief's date is the row of that brief
\* with the newest id, and the rows of other dates are the ones held before,
\* all of those within retention still there.
C15_UpsertByDate ==
    /\ \A r1, r2 \in db.rows : r1.date = r2.date => r1 = r2
    /\ fn = "stored" =>
          /\ \A r \in db.rows :
                r.date = arg.date =>
                   /\ r.id = ret /\ r.id > arg2.seq
                   /\ r.total_items_scanned = arg.total_items_scanned
          /\ \A r \in db.rows : r.date # arg.date => r \in arg2.rows
          /\ \A r \in arg2.rows :
                (r.date # arg.date /\ DayOf(r.date) >= today - retention_days_default)
                => r \in db.rows

\* a re-run on the day of an earlier brief: that brief's row is replaced, the
\* row of another date stays
C15_Witness ==
    /\ fn = "stored"
    /\ \E r \in arg2.rows :
          r.date = arg.date /\ r.total_items_scanned # arg.total_items_scanned
    /\ \E r \in arg2.rows : r.date # arg.date /\ r \in db.rows
    /\ \E r \in db.rows : r.date = arg.date /\ r.id = ret

\* C16 - age-based purge after each write: when store_brief has returned, no
\* row is dated before today - 14, every row that was held and is dated within
\* the window is still there, and so is the row just written if its date is
\* within the window; a read leaves the table as it was.
C16_PurgeAfterWrite ==
    /\ fn = "stored" =>
          /\ \A r \in db.rows : DayOf(r.date) >= today - retention_days_default
          /\ \A r \in arg2.rows :
                DayOf(r.date) >= today - retention_days_default
                => \E q \in db.rows : q.date = r.date
          /\ DayOf(arg.date) >= today - retention_days_default
                => \E q \in db.rows :
                      q.date = arg.date /\ q.total_items_scanned = arg.total_items_scanned
    /\ fn = "read" => db = arg2

\* a write after midnight: the row that was at the cutoff the day before is
\* purged, a row dated at the new cutoff is held
C16_Witness ==
    /\ fn = "stored"
    /\ \E r \in arg2.rows :
          /\ DayOf(r.date) = today - retention_days_default - 1
          /\ r.date # arg.date /\ r \notin db.rows
    /\ \E r \in db.rows : DayOf(r.date) = today - retention_days_default

C18_EmptyPool ==
    (Aggregated /\ fresh_items = << >>) =>
        /\ sorted_items = << >> /\ analyzed = << >> /\ outcomes = << >>
        /\ raised \notin { "analyze", "generate" }
        /\ BriefItems(brief) = {}
        /\ brief.total_items_scanned = 0
        /\ all_shown_items = << >>
        /\ pc \in { "store", "deliver", "done" } => brief.sources_checked = source_names

\* records were fetched and none passed the time filter; both text calls
\* failed; generate_brief returned a brief with the two fallback texts
C18_Witness ==
    /\ pc = "store"
    /\ all_items # << >> /\ recent_items = << >>
    /\ brief.date = utc_date(today)
    /\ brief.claudes_take = Words("Couldn't generate brief today.")
    /\ brief.quick_catchup = Words("Couldn't generate summary today.")
    /\ BriefItems(brief) = {} /\ brief.total_items_scanned = 0

\* ================== batch_analyze's selection on a pool of two sources
MaxDomX == 12
MaxDomY == 6
DomX == "nyt"
DomY == "reddit"
DomCaps == { 2 * min_per_source - 1, 2 * min_per_source, 2 * min_per_source + 1 }

\* the last record of the pool so far
LastOf(items) ==
    IF items = << >> THEN [ source_type |-> "none", kw |-> 0 ] ELSE items[Len(items)]

InitDominance ==
    /\ RunIdle("idle") /\ history = {}
    /\ fn = "dominance"
    /\ arg = << >> /\ arg2 = 0 /\ ret = << >> /\ ret2 = << >>

\* the pool grows by one record with an id and a URL of its own.  The pool is
\* the concatenation of what each adapter returned, so the records of one
\* source are adjacent; those of DomX come with their keyword hits
\* non-increasing.
DominanceInput ==
    /\ fn = "dominance"
    /\ \E st \in { DomX, DomY }, kw \in RankKeywords :
          /\ CountOfType(arg, st) < (IF st = DomX THEN MaxDomX ELSE MaxDomY)
          /\ LastOf(arg).source_type = st \/ CountOfType(arg, st) = 0
          /\ (st = DomX /\ LastOf(arg).source_type = DomX) => kw <= LastOf(arg).kw
          /\ arg' = Append(arg, RankItem(Len(arg) + 1, st, kw))
    /\ UNCHANGED << runVars, fn, arg2, ret, ret2 >>

\* batch_analyze(items, max_items) up to the list sent to analysis
DominanceCall ==
    /\ fn = "dominance"
    /\ \E max_items \in DomCaps :
          /\ arg2' = max_items
          /\ ret' = select_for_analysis(arg, max_items)
    /\ fn' = "dominated"
    /\ UNCHANGED << runVars, arg, ret2 >>

NextDominance == DominanceInput \/ DominanceCall

SpecDominance == InitDominance /\ [][NextDominance]_vars

\* the records of type DomX that score above every record of type DomY
AboveEveryY(items) ==
    { i \in 1..Len(items) :
        /\ items[i].source_type = DomX
        /\ \A j \in 1..Len(items) :
              items[j].source_type = DomY => item_score(items[i]) > item_score(items[j]) }

DominancePre ==
    /\ fn = "dominated"
    /\ DistinctIds(arg)
    /\ Cardinality(AboveEveryY(arg)) >= arg2
    /\ arg2 >= 2 * min_per_source

\* C19 - single source dominance: in a pool of two source types X and Y with
\* distinct ids, where at least cap records of X score above every record of Y
\* and cap >= 2 * 5, the selection has exactly cap records, exactly
\* min(5, |Y|) of them of type Y and the rest of type X.
C19_SingleSourceDominance ==
    DominancePre =>
        /\ Len(ret) = arg2
        /\ CountOfType(ret, DomY) = Min(min_per_source, CountOfType(arg, DomY))
        /\ CountOfType(ret, DomX) = arg2 - Min(min_per_source, CountOfType(arg, DomY))

\* six records of Y ahead of twelve of X in the pool, ten of X above every Y
\* and two below some Y; the selection has five of Y and five of X
C19_Witness ==
    /\ DominancePre
    /\ arg2 = 2 * min_per_source
    /\ arg[1].source_type = DomY
    /\ CountOfType(arg, DomY) = 6 /\ CountOfType(arg, DomX) = 12
    /\ Cardinality(AboveEveryY(arg)) = 10
    /\ CountOfType(ret, DomY) = 5 /\ CountOfType(ret, DomX) = 5

\* ============================ run_aggregation's delivery and the exit
\* The run has generated and stored its brief.  arg holds the flags of the
\* command line and what the settings carry; ret is the exit code of main.
DeliveryOptions ==
    [ email : BOOLEAN, notify : BOOLEAN, email_recipient : BOOLEAN,
      imessage_recipient : BOOLEAN, resend_api_key : BOOLEAN ]

\* what resend.Emails.send does
EmailOutcomes == { "sent", "ResendError" }

\* what subprocess.run(["osascript", ...], check=True) does: the script exits
\* with 0, exits with another status, or there is no osascript to run
IMessageOutcomes == { "sent", "CalledProcessError", "FileNotFoundError" }

\* send_email_resend: except Exception
email_except_catches(exc) == exc # "sent"

\* send_imessage: except subprocess.CalledProcessError
imessage_except_catches(exc) == exc = "CalledProcessError"

InitDeliver ==
    /\ RunIdle("deliver") /\ history = {}
    /\ fn = "main"
    /\ arg \in DeliveryOptions
    /\ arg2 = << >> /\ ret = None /\ ret2 = << >>

\* if email and settings.email_recipient: send_email_resend(...)
SendEmail ==
    /\ fn = "main" /\ pc = "deliver"
    /\ IF ~(arg.email /\ arg.email_recipient)
       THEN delivery' = delivery /\ pc' = "imessage" /\ raised' = raised
       ELSE IF ~arg.resend_api_key
       THEN delivery' = [ delivery EXCEPT !.email = "skipped" ]
            /\ pc' = "imessage" /\ raised' = raised
       ELSE \E out \in EmailOutcomes :
              IF out = "sent"
              THEN delivery' = [ delivery EXCEPT !.email = "sent" ]
                   /\ pc' = "imessage" /\ raised' = raised
              ELSE IF email_except_catches(out)
              THEN delivery' = [ delivery EXCEPT !.email = "failed" ]
                   /\ pc' = "imessage" /\ raised' = raised
              ELSE delivery' = [ delivery EXCEPT !.email = "raised" ]
                   /\ pc' = "finally" /\ raised' = "deliver"
    /\ UNCHANGED << results, close_called, history, all_items, sources_checked,
                    recent_items, unique_items, recently_shown, fresh_items, sorted_items,
                    analyzed, outcomes, relevant_items, brief, all_shown_items, store_ok,
                    fnVars, envVars >>

\* if notify and settings.imessage_recipient: send_imessage(...); then
\* return brief, text, None
SendIMessage ==
    /\ fn = "main" /\ pc = "imessage"
    /\ pc' = "finally"
    /\ IF ~(arg.notify /\ arg.imessage_recipient)
       THEN delivery' = delivery /\ raised' = raised
       ELSE \E out \in IMessageOutcomes :
              IF out = "sent"
              THEN delivery' = [ delivery EXCEPT !.imessage = "sent" ] /\ raised' = raised
              ELSE IF imessage_except_catches(out)
              THEN delivery' = [ delivery EXCEPT !.imessage = "failed" ] /\ raised' = raised
              ELSE delivery' = [ delivery EXCEPT !.imessage = "raised" ]
                   /\ raised' = "deliver"
    /\ UNCHANGED << results, close_called, history, all_items, sources_checked,
                    recent_items, unique_items, recently_shown, fresh_items, sorted_items,
                    analyzed, outcomes, relevant_items, brief, all_shown_items, store_ok,
                    fnVars, envVars >>

\* main: asyncio.run(run_aggregation(...)) with no handler around it; the
\* interpreter exits with 0 when it returns and with 1 on an exception
Exit ==
    /\ fn = "main" /\ pc \in { "done", "failed" }
    /\ ret' = IF pc = "done" THEN 0 ELSE 1
    /\ fn' = "exited"
    /\ UNCHANGED << runVars, arg, arg2, ret2 >>

NextDeliver == SendEmail \/ SendIMessage \/ Finally \/ Exit

SpecDeliver == InitDeliver /\ [][NextDeliver]_vars

\* C17 - delivery failures are not fatal: once the brief is generated and
\* stored, no failure of an enabled delivery channel leaves run_aggregation;
\* the run returns the brief and the process exits with code 0.
C17_DeliveryFailuresNotFatal ==
    /\ raised = "none"
    /\ fn = "exited" => (pc = "done" /\ ret = 0)

\* ================================ batch_analyze's loop, step by step
\* calls is the log of the loop: <<"call", i>> when analyze_item is called on
\* sorted_items[i], <<"return", i>> when it returns, <<"sleep", i>> when the
\* asyncio.sleep(0.5) after it has elapsed.
MaxLoop == 4

LoopOutcomes ==
    { LLMOutcome("api_error", Missing, NoCategory, NoText),
      LLMOutcome("json_dict", 90, "research", << "insight" >>) }

\* a loop that goes from one call to the next with no delay
loop_next_no_sleep(log, n) ==
    IF log = << >> THEN (IF n > 0 THEN { << "call", 1 >> } ELSE {})
    ELSE LET last == log[Len(log)]
         IN IF last[1] = "call" THEN { << "return", last[2] >> }
            ELSE IF last[2] < n THEN { << "call", last[2] + 1 >> } ELSE {}

\* for i, item in enumerate(sorted_items): await analyze_item(item); append;
\* if i < len(sorted_items) - 1: await asyncio.sleep(0.5).  The step that
\* follows the log, for a selection of n records (i counts from 1 here).
loop_next(log, n) ==
    IF log = << >> THEN (IF n > 0 THEN { << "call", 1 >> } ELSE {})
    ELSE LET last == log[Len(log)]
         IN IF last[1] = "call" THEN { << "return", last[2] >> }
            ELSE IF last[1] = "return"
                 THEN (IF last[2] < n THEN { << "sleep", last[2] >> } ELSE {})
            ELSE { << "call", last[2] + 1 >> }

InitAnalyze ==
    /\ RunIdle("idle") /\ history = {}
    /\ fn = "selecting"
    /\ arg = << >> /\ arg2 = << >> /\ ret = << >> /\ ret2 = << >>

\* the selection grows by one record
LoopInput ==
    /\ fn = "selecting"
    /\ Len(sorted_items) < MaxLoop
    /\ \E st \in RankTypes :
          sorted_items' = Append(sorted_items, RankItem(Len(sorted_items) + 1, st, 0))
    /\ UNCHANGED << pc, raised, results, close_called, history, all_items, sources_checked,
                    recent_items, unique_items, recently_shown, fresh_items,
                    analyzed, outcomes, relevant_items, brief, all_shown_items, store_ok,
                    fnVars, delivery, envVars >>

\* analyzed = []; the loop is entered
LoopEnter ==
    /\ fn = "selecting"
    /\ fn' = "loop"
    /\ UNCHANGED << runVars, arg, arg2, ret, ret2 >>

\* analyze_item(item) is called
CallStart ==
    /\ fn = "loop"
    /\ \E e \in loop_next(calls, Len(sorted_items)) :
          e[1] = "call" /\ calls' = Append(calls, e)
    /\ UNCHANGED << pc, raised, results, close_called, history, all_items, sources_checked,
                    recent_items, unique_items, recently_shown, fresh_items, sorted_items,
                    analyzed, outcomes, relevant_items, brief, all_shown_items, store_ok,
                    fnVars, delivery, today, db, runs, presented >>

\* analyze_item returns and its result is appended to analyzed
CallReturn ==
    /\ fn = "loop"
    /\ \E e \in loop_next(calls, Len(sorted_items)), o \in LoopOutcomes :
          /\ e[1] = "return"
          /\ calls' = Append(calls, e)
          /\ analyzed' = Append(analyzed, analyze_item(sorted_items[e[2]], o))
          /\ outcomes' = Append(outcomes, o.kind)
    /\ UNCHANGED << pc, raised, results, close_called, history, all_items, sources_checked,
                    recent_items, unique_items, recently_shown, fresh_items, sorted_items,
                    relevant_items, brief, all_shown_items, store_ok,
                    fnVars, delivery, today, db, runs, presented >>

\* asyncio.sleep(0.5) has elapsed
Sleep ==
    /\ fn = "loop"
    /\ \E e \in loop_next(calls, Len(sorted_items)) :
          e[1] = "sleep" /\ calls' = Append(calls, e)
    /\ UNCHANGED << pc, raised, results, close_called, history, all_items, sources_checked,
                    recent_items, unique_items, recently_shown, fresh_items, sorted_items,
                    analyzed, outcomes, relevant_items, brief, all_shown_items, store_ok,
                    fnVars, delivery, today, db, runs, presented >>

\* return analyzed
LoopReturn ==
    /\ fn = "loop"
    /\ loop_next(calls, Len(sorted_items)) = {}
    /\ ret' = analyzed
    /\ fn' = "returned"
    /\ UNCHANGED << runVars, arg, arg2, ret2 >>

NextAnalyze == LoopInput \/ LoopEnter \/ CallStart \/ CallReturn \/ Sleep \/ LoopReturn

SpecAnalyze == InitAnalyze /\ [][NextAnalyze]_vars

\* the positions of an event in the log
PosOf(e) == { k \in 1..Len(calls) : calls[k] = e }

\* the calls that have started and have not returned
InFlight ==
    { i \in 1..Len(sorted_items) : PosOf(<< "call", i >>) # {} /\ PosOf(<< "return", i >>) = {} }

\* C20 - sequential, throttled analysis: at most one analyze_item call is in
\* flight at any time; the call for record i+1 starts only after the call for
\* record i has returned and the delay after it has elapsed; records are
\* analyzed in selection order, each once.
C20_SequentialThrottled ==
    /\ Cardinality(InFlight) <= 1
    /\ \A k \in 1..Len(calls) :
          (calls[k][1] = "call" /\ calls[k][2] > 1) =>
              \E a, b \in 1..(k - 1) :
                  /\ a < b
                  /\ calls[a] = << "return", calls[k][2] - 1 >>
                  /\ calls[b] = << "sleep", calls[k][2] - 1 >>
    /\ \A i \in 1..Len(sorted_items) : Cardinality(PosOf(<< "call", i >>)) <= 1
    /\ \A i, j \in 1..Len(sorted_items) :
          (i < j /\ PosOf(<< "call", j >>) # {}) =>
              \E a \in PosOf(<< "call", i >>) : \A b \in PosOf(<< "call", j >>) : a < b
    /\ \A k \in 1..Len(analyzed) : analyzed[k].id = sorted_items[k].id
    /\ fn = "returned" => Len(ret) = Len(sorted_items)

\* three records or more went through the loop: a call, a return and a delay
\* for each but the last, which has no delay after it
C20_Witness ==
    /\ fn = "returned"
    /\ Len(sorted_items) >= 3
    /\ Len(calls) = 3 * Len(sorted_items) - 1
    /\ calls[Len(calls)] = << "return", Len(sorted_items) >>
    /\ PosOf(<< "sleep", 1 >>) # {} /\ PosOf(<< "sleep", Len(sorted_items) >>) = {}

\* ===================================== one run after another, same store
\* Each run is taken whole, so at most one run is in flight.  All the runs are
\* within one retention window of the history store: nothing it holds expires.
\* presented keeps, for every URL a run placed in its brief, the number of the
\* run and whether the store recorded the marking.
MaxRuns == 2
MaxRunUrl == 2

RunItem(u) == ContentItem(u + 10, "arxiv", "arxiv", u, Now - 1, 1)

\* what the adapters return to one run: the records of a set of URLs
RunBatch(S) ==
    SelectSeq([ u \in 1..MaxRunUrl |-> RunItem(u) ], LAMBDA item : item.url \in S)

RECURSIVE analyze_all(_, _)
analyze_all(items, o) ==
    IF items = << >> THEN << >>
    ELSE << analyze_item(Head(items), o) >> \o analyze_all(Tail(items), o)

InitRuns ==
    /\ RunIdle("idle") /\ history = {}
    /\ FnIdle

\* aggregate_and_analyze and generate_brief of one run: the store answers the
\* read or not, records the marking or not; every analysis call of the run
\* has the same outcome
RunOnce ==
    /\ runs < MaxRuns
    /\ \E S \in SUBSET (1..MaxRunUrl), o \in LoopOutcomes, read_ok \in BOOLEAN,
          mark_ok \in BOOLEAN, answers \in TextAnswers :
         /\ all_items' = RunBatch(S)
         /\ recent_items' = filter_by_time(all_items', None)
         /\ unique_items' = deduplicate(recent_items')
         /\ recently_shown' = get_recently_shown_urls(history, read_ok)
         /\ fresh_items' = remove_recently_shown(unique_items', recently_shown')
         /\ sorted_items' = select_for_analysis(fresh_items', max_items_default)
         /\ analyzed' = analyze_all(sorted_items', o)
         /\ outcomes' = [ k \in 1..Len(analyzed') |-> o.kind ]
         /\ relevant_items' = relevant_items_of(analyzed')
         /\ brief' = DailyBrief(analyzed', generate_narrative_brief(answers[1]),
                                generate_quick_catchup(answers[2]), utc_date(today),
                                source_names)
         /\ all_shown_items' =
               all_shown_items_of(analyzed', narrative_urls(generate_narrative_brief(answers[1])))
         /\ history' = mark_items_shown(history, all_shown_items', mark_ok)
         /\ store_ok' = [ read |-> read_ok, mark |-> mark_ok ]
         /\ presented' = presented \cup
                { [ url |-> UrlStr(item), run |-> runs + 1, marked |-> mark_ok ] :
                    item \in BriefItems(brief') }
    /\ runs' = runs + 1
    /\ UNCHANGED << pc, raised, results, close_called, sources_checked, fnVars, delivery,
                    today, db, calls >>

NextRuns == RunOnce

SpecRuns == InitRuns /\ [][NextRuns]_vars

\* the URLs that a run before the latest one placed in its brief
PresentedBefore == { p \in presented : p.run < runs }

C28_SingleFetchBarrier ==
    /\ [](/\ pc = "fetching" =>
               /\ all_items = << >> /\ sources_checked = << >>
               /\ \A a \in Sources : results[a].state = "pending" => ENABLED SourceFetch(a)
          /\ Aggregated => \A a \in Sources : results[a].state \in { "ok", "error" })
    /\ [][results' # results =>
             /\ pc = "fetching" /\ pc' = "fetching"
             /\ all_items' = all_items /\ sources_checked' = sources_checked
             /\ \E a \in Sources :
                   /\ results[a].state = "pending" /\ results'[a].state # "pending"
                   /\ \A b \in Sources \ { a } : results'[b] = results[b]]_vars

\* fetch_all is waiting: one task has returned a record, another has failed, a
\* third is still running, and nothing is merged yet
C28_Witness ==
    /\ pc = "fetching"
    /\ \E a, b, c \in Sources :
          /\ results[a].state = "ok" /\ results[a].items # << >>
          /\ results[b].state = "error"
          /\ results[c].state = "pending"
    /\ all_items = << >>

\* ====================================== analyze_item called on its own
\* a newsworthiness_score that is a JSON string, not a number
NotANumber == 0 - 3000

\* the values the key newsworthiness_score can have in a parsed answer: absent,
\* null, text, and numbers inside and outside 0.0-1.0 (hundredths)
ScoreValues == { Missing, None, NotANumber, 0 - 10, 0, 35, 100, 150, 8500 }

ScoreOutcomes ==
    { LLMOutcome(k, Missing, NoCategory, NoText) : k \in { "api_error", "bad_json", "json_nondict" } }
    \cup { LLMOutcome("json_dict", v, c, << "insight" >>) :
              v \in ScoreValues, c \in { NoCategory, "research" } }

InitScore ==
    /\ RunIdle("idle") /\ history = {}
    /\ fn = "analyze_item"
    /\ arg = << >> /\ arg2 = << >> /\ ret = << >> /\ ret2 = << >>

\* the record to analyse
ScoreInput ==
    /\ fn = "analyze_item" /\ arg = << >>
    /\ \E i \in 1..2, st \in RankTypes, kw \in RankKeywords : arg' = RankItem(i, st, kw)
    /\ UNCHANGED << runVars, fn, arg2, ret, ret2 >>

\* analyze_item(item): arg2 is what the LLM call did, ret the record returned
ScoreCall ==
    /\ fn = "analyze_item" /\ arg # << >>
    /\ \E o \in ScoreOutcomes :
          /\ ~analyze_item_raises(o)
          /\ arg2' = o
          /\ ret' = analyze_item(arg, o)
    /\ fn' = "analyzed_item"
    /\ UNCHANGED << runVars, arg, ret2 >>

NextScore == ScoreInput \/ ScoreCall

SpecScore == InitScore /\ [][NextScore]_vars

\* C27 - score range: after analysis the record's relevance_score is a number
\* in [0, 1], whatever the analysis service returned.
C27_ScoreRange ==
    fn = "analyzed_item" => ret.relevance_score \in 0..100

\* ============================== the adapters' HTTP helper and its retry
\* arg[a] is the helper call adapter a is in: attempt the attempts made for
\* it, left the helper calls the adapter has still to make, waiting whether
\* the back-off before the next attempt is running.  results[a] is the
\* adapter task's result, as in fetch_all.
stop_after_attempt == 3
MaxHelperCalls == 2
MaxAttemptCount == 5

\* a retry that never gives up
retry_stops_never(attempt) == FALSE

\* @retry(stop=stop_after_attempt(3), ...): after a failed attempt, give up
retry_stops(attempt) == attempt >= stop_after_attempt

\* what one attempt (client.get, raise_for_status) does: a response, an error
\* status or connection error, or the client's timeout
AttemptOutcomes == { "response", "HTTPError", "Timeout" }

InitRetry ==
    /\ RunIdle("fetching") /\ history = {}
    /\ fn = "fetch_all"
    /\ arg \in [ Sources -> { [ attempt |-> 0, left |-> n, waiting |-> FALSE ] : n \in 1..MaxHelperCalls } ]
    /\ arg2 = << >> /\ ret = << >> /\ ret2 = << >>

\* one attempt of the helper call of adapter a.  A response ends the call;
\* a failure is followed by the back-off, or, when the retry stops, by
\* RetryError, which the adapter's fetch lets out or catches to go on.
Attempt(a) ==
    /\ pc = "fetching" /\ results[a].state = "pending"
    /\ ~arg[a].waiting /\ arg[a].attempt < MaxAttemptCount
    /\ \E out \in AttemptOutcomes, caught \in BOOLEAN :
         LET n == arg[a].attempt + 1
             next_call == [ attempt |-> 0, left |-> arg[a].left - 1, waiting |-> FALSE ]
         IN IF out # "response" /\ ~retry_stops(n)
            THEN /\ arg' = [ arg EXCEPT ![a] = [ @ EXCEPT !.attempt = n, !.waiting = TRUE ] ]
                 /\ results' = results
            ELSE IF out # "response" /\ ~caught
            THEN /\ arg' = [ arg EXCEPT ![a] = [ @ EXCEPT !.attempt = n ] ]
                 /\ results' = [ results EXCEPT ![a] = FetchError ]
            ELSE IF arg[a].left > 1
            THEN /\ arg' = [ arg EXCEPT ![a] = next_call ]
                 /\ results' = results
            ELSE /\ arg' = [ arg EXCEPT ![a] = [ @ EXCEPT !.attempt = n ] ]
                 /\ results' = [ results EXCEPT ![a] = FetchOk(<< >>) ]
    /\ UNCHANGED << pc, raised, close_called, history, all_items, sources_checked,
                    recent_items, unique_items, recently_shown, fresh_items, sorted_items,
                    analyzed, outcomes, relevant_items, brief, all_shown_items, store_ok,
                    delivery, envVars, fn, arg2, ret, ret2 >>

\* wait_exponential(multiplier=1, min=2, max=10): the back-off has elapsed
BackOff(a) ==
    /\ pc = "fetching" /\ results[a].state = "pending"
    /\ arg[a].waiting
    /\ arg' = [ arg EXCEPT ![a] = [ @ EXCEPT !.waiting = FALSE ] ]
    /\ UNCHANGED << runVars, fn, arg2, ret, ret2 >>

\* gather returns and fetch_all merges
Barrier ==
    /\ pc = "fetching"
    /\ gather_done(results)
    /\ all_items' = merge_results(results, 1)
    /\ sources_checked' = source_names
    /\ pc' = "merged"
    /\ UNCHANGED << raised, results, close_called, history,
                    recent_items, unique_items, recently_shown, fresh_items, sorted_items,
                    analyzed, outcomes, relevant_items, brief, all_shown_items, store_ok,
                    delivery, envVars, fnVars >>

NextRetry == (\E a \in Sources : Attempt(a) \/ BackOff(a)) \/ Barrier

SpecRetry == InitRetry /\ [][NextRetry]_vars

\* every request completes or times out, every back-off elapses, and the event
\* loop runs a task that is ready
SpecRetryLive ==
    /\ SpecRetry
    /\ \A a \in Sources : WF_vars(Attempt(a)) /\ WF_vars(BackOff(a))
    /\ WF_vars(Barrier)

\* C21 - bounded retry, no indefinite stall: a helper call makes at most 3
\* attempts, and given that each request completes or times out every adapter
\* task finishes and fetch_all eventually passes its barrier.
C21_BoundedRetry ==
    /\ [](\A a \in Sources : arg[a].attempt <= stop_after_attempt)
    /\ <>(\A a \in Sources : results[a].state # "pending")
    /\ <>(pc = "merged")

\* fetch_all passed its barrier although one adapter's helper call failed
\* three times and its task ended with the error, while another adapter's
\* call got its response at the third attempt
C21_Witness ==
    /\ pc = "merged"
    /\ \E a, b \in Sources :
          /\ results[a].state = "error" /\ arg[a].attempt = stop_after_attempt
          /\ results[b].state = "ok" /\ arg[b].attempt = stop_after_attempt

\* ============================ _select_diverse_items called on its own
MaxDiverseLen == 5
MaxTarget == 4

InitDiverse ==
    /\ RunIdle("idle") /\ history = {}
    /\ fn = "select_diverse_items"
    /\ arg = << >> /\ arg2 = 0 /\ ret = << >> /\ ret2 = << >>

\* the list grows by one record, scored no higher than the one before it; its
\* id is new, or that of an earlier record of the same source type (ids carry
\* the adapter's prefix, so no id is shared across source types)
DiverseInput ==
    /\ fn = "select_diverse_items"
    /\ Len(arg) < MaxDiverseLen
    /\ \E st \in { "nyt", "arxiv", "reddit" }, sc \in { 90, 50 }, id \in 1..(Len(arg) + 1) :
          /\ arg # << >> => sc <= arg[Len(arg)].relevance_score
          /\ id <= Len(arg) => \E k \in 1..Len(arg) : arg[k].id = id /\ arg[k].source_type = st
          /\ arg' = Append(arg, [ SectionItem(id, st, NoCategory, st, Len(arg) + 1)
                                     EXCEPT !.relevance_score = sc ])
    /\ UNCHANGED << runVars, fn, arg2, ret, ret2 >>

DiverseCall ==
    /\ fn = "select_diverse_items"
    /\ \E target_count \in (0..MaxTarget) \cup { target_count_whats_moving } :
          /\ arg2' = target_count
          /\ ret' = select_diverse_items(arg, target_count)
    /\ fn' = "diverse_selected"
    /\ UNCHANGED << runVars, arg, ret2 >>

NextDiverse == DiverseInput \/ DiverseCall

SpecDiverse == InitDiverse /\ [][NextDiverse]_vars

TypesOf(items) == { items[i].source_type : i \in 1..Len(items) }

\* the highest-ranked record of a source type: its first in the sorted list
BestOf(items, st) == items[CHOOSE i \in 1..Len(items) :
                             /\ items[i].source_type = st
                             /\ \A j \in 1..(i - 1) : items[j].source_type # st]

\* C23 - headline tier is diversity-aware: on a relevance-sorted list with k
\* source types, _select_diverse_items returns at most target_count records of
\* the list, no id twice, covering at least min(k, target_count) source types,
\* each covered type by its highest-ranked record; so with two types or more
\* and target_count >= 2 the result is not of one source only.
C23_HeadlineDiversity ==
    fn = "diverse_selected" =>
        /\ Len(ret) <= arg2
        /\ \A i \in 1..Len(ret) : \E k \in 1..Len(arg) : arg[k] = ret[i]
        /\ DistinctIds(ret)
        /\ Cardinality(TypesOf(ret)) >= Min(Cardinality(TypesOf(arg)), arg2)
        /\ \A st \in TypesOf(ret) : \E i \in 1..Len(ret) : ret[i] = BestOf(arg, st)
        /\ (Cardinality(TypesOf(arg)) >= 2 /\ arg2 >= 2) => Cardinality(TypesOf(ret)) >= 2

\* the two top records are of one source type and a lower one is of another;
\* with target_count 2 the result has the best of each type and leaves out
\* the second-ranked record
C23_Witness ==
    /\ fn = "diverse_selected" /\ arg2 = 2
    /\ Len(arg) >= 3
    /\ arg[1].source_type = arg[2].source_type
    /\ arg[3].source_type # arg[1].source_type
    /\ arg[3].relevance_score < arg[2].relevance_score
    /\ ret = << arg[1], arg[3] >>

\* ===================================== generate_brief called on its own
\* arg is the list of analysed records, built block by block; arg2 counts the
\* blocks.  After the call brief is the DailyBrief returned, ret the sections
\* of _categorize_for_sections, all_shown_items the list handed to
\* mark_items_shown, and ret2 the item list store_brief serializes for the
\* brief.
MaxBlocks == 2
MaxBriefLen == 27
BlockSizes == { 1, 5, 22 }

\* n records of one source type and score, ids and URLs their positions in the
\* list, source names cycling through m names, URLs with a ')' or without
BriefBlock(base, n, st, sc, m, paren) ==
    [ i \in 1..n |->
        [ SectionItem(base + i, st, NoCategory, << st, i % m >>,
                      (IF paren THEN ParenUrl ELSE 0) + base + i)
            EXCEPT !.relevance_score = sc ] ]

InitBrief ==
    /\ RunIdle("idle") /\ history = {}
    /\ fn = "generate_brief"
    /\ arg = << >> /\ arg2 = 0 /\ ret = << >> /\ ret2 = << >>

\* batch_analyze returns the records in selection order, which is not the
\* order of their relevance scores: any block may follow any other
BriefInput ==
    /\ fn = "generate_brief"
    /\ arg2 < MaxBlocks
    /\ \E n \in BlockSizes, st \in { "reddit", "arxiv", "nyt" },
          sc \in { 90, relevance_threshold, relevance_threshold - 1, None },
          v \in { << 1, FALSE >>, << 3, FALSE >>, << 3, TRUE >> } :
          /\ Len(arg) + n <= MaxBriefLen
          /\ arg' = arg \o BriefBlock(Len(arg), n, st, sc, v[1], v[2])
    /\ arg2' = arg2 + 1
    /\ UNCHANGED << runVars, fn, ret, ret2 >>

\* what the narrative call does: it fails, or answers a text with one link, to
\* the URL of the first or of the last record
BriefNarratives(items) ==
    { LLMError } \cup
    { LLMText(Words("lead") \o Link("story", items[k].url)) :
        k \in { 1, Len(items) } \cap (1..Len(items)) }

\* generate_brief(items, sources_checked), followed by what store_brief would
\* serialize for the brief returned
BriefCall ==
    /\ fn = "generate_brief"
    /\ \E llm \in BriefNarratives(arg) :
          /\ relevant_items' = relevant_items_of(arg)
          /\ brief' = DailyBrief(arg, generate_narrative_brief(llm), Words("teaser"),
                                 utc_date(today), source_names)
          /\ ret' = categorize_for_sections(relevant_items',
                                            narrative_urls(generate_narrative_brief(llm)))
          /\ all_shown_items' =
                all_shown_items_of(arg, narrative_urls(generate_narrative_brief(llm)))
          /\ ret2' = items_data(brief')
    /\ \E available \in BOOLEAN :
          /\ history' = mark_items_shown(history, all_shown_items', available)
          /\ store_ok' = [ store_ok EXCEPT !.mark = available ]
    /\ analyzed' = arg
    /\ fn' = "brief_generated"
    /\ UNCHANGED << pc, raised, results, close_called, all_items, sources_checked,
                    recent_items, unique_items, recently_shown, fresh_items, sorted_items,
                    outcomes, delivery, envVars, arg, arg2 >>

NextBrief == BriefInput \/ BriefCall

SpecBrief == InitBrief /\ [][NextBrief]_vars

\* the records of the four category sections
SectionItems == UNION { Range(ret[t]) : t \in SectionNames }

\* the URLs the narrative of the brief links
LinkedUrls ==
    { brief.claudes_take[i].url :
        i \in { j \in 1..Len(brief.claudes_take) : brief.claudes_take[j].kind = "link" } }

\* C24 - narrative exclusion: no record whose URL is linked in the narrative
\* text is placed in a category section of the brief.
C24_NarrativeExclusion ==
    fn = "brief_generated" =>
        \A item \in SectionItems : UrlStr(item) \notin LinkedUrls

\* C25 - sections are filled from the remainder: a record selected for the
\* headline tier (whats_moving) is in no category section, and no record is in
\* two category sections of the brief.
C25_SectionsFromRemainder ==
    fn = "brief_generated" =>
        /\ \A item \in Range(brief.whats_moving) : item \notin SectionItems
        /\ \A t, u \in SectionNames : t # u => Range(ret[t]) \cap Range(ret[u]) = {}

NonIncreasing(items) ==
    \A i \in 1..(Len(items) - 1) : items[i].relevance_score >= items[i + 1].relevance_score

\* C26 - threshold and order: every record in a bucket of the brief has a
\* relevance_score of at least 0.35, a record with no score being in none;
\* each category section and the overflow list are in non-increasing score
\* order; the overflow list has at most 15 records.
C26_ThresholdAndOrder ==
    fn = "brief_generated" =>
        /\ \A item \in BriefItems(brief) \cup SectionItems :
              item.relevance_score # None /\ item.relevance_score >= relevance_threshold
        /\ \A t \in SectionNames : NonIncreasing(ret[t])
        /\ NonIncreasing(brief.top_signal) /\ NonIncreasing(brief.builder_corner)
        /\ NonIncreasing(brief.homelab_corner) /\ NonIncreasing(brief.honorable_mentions)
        /\ NonIncreasing(brief.worth_a_click)
        /\ Len(brief.worth_a_click) <= max_worth_a_click

\* the list came with its lower-scored block first, scored exactly 0.35, and
\* had more records than the headline tier and the overflow list take; the
\* overflow list is full, and a section holds records of both scores
C26_Witness ==
    /\ fn = "brief_generated"
    /\ Len(relevant_items) > 22
    /\ arg[1].relevance_score = relevance_threshold
    /\ arg[Len(arg)].relevance_score > relevance_threshold
    /\ Len(brief.worth_a_click) = max_worth_a_click
    /\ \E t \in SectionNames :
          /\ Len(ret[t]) >= 2
          /\ ret[t][1].relevance_score > ret[t][Len(ret[t])].relevance_score

\* C29 - persisted projection is complete: the item list store_brief
\* serializes has a projection of every record in a bucket of the brief.
C29_PersistedProjectionComplete ==
    fn = "brief_generated" =>
        \A item \in BriefItems(brief) :
            \E k \in 1..Len(ret2) : ret2[k].id = item.id /\ ret2[k].url = UrlStr(item)

\* C30 - only presented records are marked as shown: every record handed to
\* mark_items_shown is in some bucket of the brief returned.
C30_OnlyPresentedMarked ==
    fn = "brief_generated" =>
        \A k \in 1..Len(all_shown_items) : all_shown_items[k] \in BriefItems(brief)

====
